---- MODULE Spec2Model ----
(***************************************************************************)
(* Air Tracker - Flight Analytics (src/app.py): a Streamlit dashboard over *)
(* the SQLite file air_tracker.db.  The model keeps the three tables, the  *)
(* cached connection, and per browser session the script run in progress:  *)
(* the get_data calls still to make, the call in flight and the DataFrame  *)
(* the last call returned.                                                 *)
(*                                                                         *)
(* SQL text is a sequence of tokens, bound parameters are a separate       *)
(* sequence, and the engine evaluates a statement from its tokens and its  *)
(* bound parameters.  SQL NULL / pandas None is the value NULL.            *)
(***************************************************************************)
EXTENDS Integers, Sequences, FiniteSets, TLC

VARIABLES flights, airports, aircraft, conn, page, selected, script, pc,
          stmt, handle, result

vars == <<flights, airports, aircraft, conn, page, selected, script, pc,
          stmt, handle, result>>

(***************************************************************************)
(* Bounds of the model.                                                    *)
(***************************************************************************)
\* flights chosen one by one, besides one block of identical flights
MaxSingles == 1

Sessions == {"s1", "s2"}

NULL == "<NULL>"

\* NULL in a numeric column or aggregate
NullInt == -1

Range(s) == {s[i] : i \in DOMAIN s}

Replicate(n, x) == [i \in 1..n |-> x]

Min(a, b) == IF a <= b THEN a ELSE b

MaxOf(S) == CHOOSE m \in S : \A x \in S : x <= m

SeqsUpTo(S, n) == UNION {[1..k -> S] : k \in 0..n}

(***************************************************************************)
(* The dataset: rows of airports, aircraft and flights.                    *)
(***************************************************************************)
Airport(icao, iata, name, city, country) ==
    [icao_code |-> icao, iata_code |-> iata, name |-> name, city |-> city,
     country |-> country]

DEL == Airport("VIDP", "DEL", "Indira Gandhi Intl", "Delhi", "IN")
BOM == Airport("VABB", "BOM", "Chhatrapati Shivaji Intl", "Mumbai", "IN")
JFK == Airport("KJFK", "JFK", "John F Kennedy Intl", "New York", "US")
\* the same country in another letter case, and an airport without IATA code
CCU == Airport("VECC", "CCU", "Netaji Subhas Chandra Bose Intl", "Kolkata", "in")
XNA == Airport("VOXX", NULL, "Airstrip", "Nowhere", NULL)

NullAirport == Airport(NULL, NULL, NULL, NULL, NULL)

Aircraft(reg, model, manufacturer) ==
    [aircraft_reg |-> reg, aircraft_model |-> model, manufacturer |-> manufacturer]

NullAircraft == Aircraft(NULL, NULL, NULL)

Fleet == <<Aircraft("VT-IFA", "A320", "Airbus"), Aircraft("VT-ANB", "B787", "Boeing"),
           Aircraft("VT-IFC", "A321", "Airbus")>>

Flight(airline, status, origin, dest, dep, reg) ==
    [flight_id |-> 0, flight_number |-> 0, airline_name |-> airline,
     aircraft_reg |-> reg, origin_icao |-> origin, dest_icao |-> dest,
     scheduled_dep |-> dep, scheduled_arr |-> dep, actual_arr |-> dep,
     status |-> status, delay_dep |-> 0, delay_arr |-> 0]

NullFlight ==
    [flight_id |-> NullInt, flight_number |-> NullInt, airline_name |-> NULL,
     aircraft_reg |-> NULL, origin_icao |-> NULL, dest_icao |-> NULL,
     scheduled_dep |-> NullInt, scheduled_arr |-> NullInt, actual_arr |-> NullInt,
     status |-> NULL, delay_dep |-> NullInt, delay_arr |-> NullInt]

\* flight_id is the system-generated unique key (the rowid, never NULL on a
\* stored row); the data sets of the model number their flights likewise.
Renumber(fs) ==
    [i \in DOMAIN fs |-> [fs[i] EXCEPT !.flight_id = i, !.flight_number = i]]

\* Up to MaxSingles flights chosen one by one, and a block of n identical
\* flights inserted before or after them.
FlightTables(Kinds, BulkKinds, Sizes) ==
    { Renumber(IF first THEN Replicate(n, b) \o s ELSE s \o Replicate(n, b)) :
        <<s, first, b, n>> \in SeqsUpTo(Kinds, MaxSingles) \X BOOLEAN \X BulkKinds \X Sizes }


(***************************************************************************)
(* SQL values.  "=" is true only between two equal non-NULL values; text   *)
(* compares byte by byte (BINARY), and ORDER BY puts NULL first ascending. *)
(***************************************************************************)
SqlEq(a, b) == a # NULL /\ b # NULL /\ a = b

\* every text value of the data sets, in ascending BINARY order, NULL first
Collation ==
    <<NULL, "A320", "A321", "Air India", "Airbus", "Airstrip", "Arrived",
      "B787", "BOM", "Boeing", "CCU", "Canceled", "Chhatrapati Shivaji Intl",
      "DEL", "Delhi", "Diverted", "IN", "IndiGo", "Indira Gandhi Intl",
      "JFK", "John F Kennedy Intl", "KJFK", "Kolkata", "Mumbai",
      "Netaji Subhas Chandra Bose Intl", "New York", "Nowhere", "US", "VABB",
      "VECC", "VIDP", "VOXX", "VT-ANB", "VT-IFA", "VT-IFC", "ZZZZ", "in">>

\* SELECT DISTINCT col ... ORDER BY col, as the list .tolist() returns
DistinctAscending(values) == SelectSeq(Collation, LAMBDA v : v \in values)

\* the rows of "L JOIN R ON On", as pairs of row numbers in nested-loop order
InnerJoin(L, R, On(_, _)) ==
    LET w == Len(R)
        cand == [k \in 1..(Len(L) * w) |-> <<((k - 1) \div w) + 1, ((k - 1) % w) + 1>>]
    IN  SelectSeq(cand, LAMBDA p : On(L[p[1]], R[p[2]]))

\* "L LEFT JOIN R ON On": row number 0 of R stands for the NULL-extended row
LeftJoin(L, R, On(_, _)) ==
    LET w == Len(R) + 1
        cand == [k \in 1..(Len(L) * w) |-> <<((k - 1) \div w) + 1, (k - 1) % w>>]
    IN  SelectSeq(cand, LAMBDA p :
            IF p[2] = 0 THEN \A j \in DOMAIN R : ~On(L[p[1]], R[j])
                        ELSE On(L[p[1]], R[p[2]]))

\* ORDER BY key DESC over row numbers idx: descending keys, rows of equal key
\* in the order the engine produced them
RECURSIVE OrderDesc(_, _)
OrderDesc(idx, key) ==
    IF idx = <<>> THEN <<>>
    ELSE LET m == MaxOf({key[i] : i \in Range(idx)})
         IN  SelectSeq(idx, LAMBDA i : key[i] = m)
             \o OrderDesc(SelectSeq(idx, LAMBDA i : key[i] # m), key)

Limit(rows, n) == SubSeq(rows, 1, Min(n, Len(rows)))

Placeholders(query) == Cardinality({i \in DOMAIN query : query[i] = "?"})

DataFrame(rows) == [ok |-> TRUE, rows |-> rows]

\* pandas raises DatabaseError when sqlite3 rejects the statement
DatabaseError == [ok |-> FALSE, error |-> "DatabaseError"]

NoFrame == [ok |-> FALSE, error |-> "nothing executed"]

(***************************************************************************)
(* Flight Explorer: the filter-to-query composer.                          *)
(***************************************************************************)
ExplorerLimit == 100

ExplorerBase ==
    <<"SELECT", "f.flight_number,", "f.airline_name,", "origin.iata_code", "AS",
      "origin,", "origin.city", "AS", "origin_city,", "f.scheduled_dep,",
      "f.status", "FROM", "flights", "f", "JOIN", "airports", "origin", "ON",
      "f.origin_icao", "=", "origin.icao_code", "WHERE", "1", "=", "1">>

ExplorerOrder == <<"ORDER", "BY", "f.scheduled_dep", "DESC", "LIMIT", "100">>

\* tuple(params) if params else None: None and the empty tuple are both falsy,
\* and get_data treats them alike; both are <<>> here
Truthy(params) == Len(params) > 0

\* the composer with the status value never appended to params
ComposeExplorerDropsStatusParam(selected_airline, selected_status, selected_origin) ==
    LET q1 == IF selected_airline # "All"
              THEN ExplorerBase \o <<"AND", "f.airline_name", "=", "?">>
              ELSE ExplorerBase
        p1 == IF selected_airline # "All" THEN <<selected_airline>> ELSE <<>>
        q2 == IF selected_status # "All"
              THEN q1 \o <<"AND", "f.status", "=", "?">>
              ELSE q1
        q3 == IF selected_origin # "All"
              THEN q2 \o <<"AND", "origin.iata_code", "=", "?">>
              ELSE q2
        p3 == IF selected_origin # "All" THEN p1 \o <<selected_origin>> ELSE p1
    IN  [query |-> q3 \o ExplorerOrder, params |-> IF Truthy(p3) THEN p3 ELSE <<>>]

\* the composer with the airline value written into the SQL text
ComposeExplorerInterpolates(selected_airline, selected_status, selected_origin) ==
    LET q1 == IF selected_airline # "All"
              THEN ExplorerBase \o <<"AND", "f.airline_name", "=", selected_airline>>
              ELSE ExplorerBase
        q2 == IF selected_status # "All"
              THEN q1 \o <<"AND", "f.status", "=", "?">>
              ELSE q1
        p2 == IF selected_status # "All" THEN <<selected_status>> ELSE <<>>
        q3 == IF selected_origin # "All"
              THEN q2 \o <<"AND", "origin.iata_code", "=", "?">>
              ELSE q2
        p3 == IF selected_origin # "All" THEN p2 \o <<selected_origin>> ELSE p2
    IN  [query |-> q3 \o ExplorerOrder, params |-> IF Truthy(p3) THEN p3 ELSE <<>>]

ComposeExplorer(selected_airline, selected_status, selected_origin) ==
    LET q1 == IF selected_airline # "All"
              THEN ExplorerBase \o <<"AND", "f.airline_name", "=", "?">>
              ELSE ExplorerBase
        p1 == IF selected_airline # "All" THEN <<selected_airline>> ELSE <<>>
        q2 == IF selected_status # "All"
              THEN q1 \o <<"AND", "f.status", "=", "?">>
              ELSE q1
        p2 == IF selected_status # "All" THEN p1 \o <<selected_status>> ELSE p1
        q3 == IF selected_origin # "All"
              THEN q2 \o <<"AND", "origin.iata_code", "=", "?">>
              ELSE q2
        p3 == IF selected_origin # "All" THEN p2 \o <<selected_origin>> ELSE p2
    IN  [query |-> q3 \o ExplorerOrder, params |-> IF Truthy(p3) THEN p3 ELSE <<>>]

(***************************************************************************)
(* The engine's reading of an explorer statement.                          *)
(***************************************************************************)
IsExplorerQuery(query) ==
    /\ Len(query) >= Len(ExplorerBase) + Len(ExplorerOrder)
    /\ SubSeq(query, 1, Len(ExplorerBase)) = ExplorerBase
    /\ SubSeq(query, Len(query) - Len(ExplorerOrder) + 1, Len(query)) = ExplorerOrder
    /\ (Len(query) - Len(ExplorerBase) - Len(ExplorerOrder)) % 4 = 0

\* the AND clauses between the base query and the ORDER BY
Clauses(query) ==
    LET n == (Len(query) - Len(ExplorerBase) - Len(ExplorerOrder)) \div 4
        at(k) == Len(ExplorerBase) + 4 * (k - 1)
    IN  [k \in 1..n |-> [column |-> query[at(k) + 2], operand |-> query[at(k) + 4]]]

\* the value the k-th clause compares with: placeholders bind positionally
Operand(clauses, params, k) ==
    IF clauses[k].operand = "?"
    THEN params[Cardinality({j \in 1..k : clauses[j].operand = "?"})]
    ELSE clauses[k].operand

ExplorerColumn(column, f, origin) ==
    CASE column = "f.airline_name" -> f.airline_name
      [] column = "f.status" -> f.status
      [] column = "origin.iata_code" -> origin.iata_code

ExplorerRow(f, origin) ==
    [flight_number |-> f.flight_number, airline_name |-> f.airline_name,
     origin |-> origin.iata_code, origin_city |-> origin.city,
     scheduled_dep |-> f.scheduled_dep, status |-> f.status]

RunExplorer(query, params, fl, ap) ==
    LET clauses == Clauses(query)
        joined == InnerJoin(fl, ap, LAMBDA f, origin : SqlEq(f.origin_icao, origin.icao_code))
        hits == SelectSeq(joined, LAMBDA p :
                    \A k \in DOMAIN clauses :
                        SqlEq(ExplorerColumn(clauses[k].column, fl[p[1]], ap[p[2]]),
                              Operand(clauses, params, k)))
        n == Len(hits)
        ordered == OrderDesc([i \in 1..n |-> i], [i \in 1..n |-> fl[hits[i][1]].scheduled_dep])
        top == Limit(ordered, ExplorerLimit)
    IN  DataFrame([i \in DOMAIN top |-> ExplorerRow(fl[hits[top[i]][1]], ap[hits[top[i]][2]])])


(***************************************************************************)
(* The statements of the pages, word by word as the script writes them.    *)
(***************************************************************************)
AirlineDomainQuery ==
    <<"SELECT", "DISTINCT", "airline_name", "FROM", "flights", "ORDER", "BY",
      "airline_name">>

StatusDomainQuery ==
    <<"SELECT", "DISTINCT", "status", "FROM", "flights", "ORDER", "BY", "status">>

OriginDomainQuery ==
    <<"SELECT", "DISTINCT", "iata_code", "FROM", "airports", "ORDER", "BY",
      "iata_code">>

FlightCountQuery ==
    <<"SELECT", "COUNT(*)", "as", "count", "FROM", "flights">>

AircraftCountQuery ==
    <<"SELECT", "COUNT(*)", "as", "count", "FROM", "aircraft">>

AirportCountQuery ==
    <<"SELECT", "COUNT(*)", "as", "count", "FROM", "airports">>

AirlineCountQuery ==
    <<"SELECT", "COUNT(DISTINCT", "airline_name)", "as", "count", "FROM",
      "flights">>

StatusDistributionQuery ==
    <<"SELECT", "status,", "COUNT(*)", "as", "count", "FROM", "flights", "GROUP",
      "BY", "status", "ORDER", "BY", "count", "DESC">>

TopAirlinesQuery ==
    <<"SELECT", "airline_name,", "COUNT(*)", "as", "flight_count", "FROM",
      "flights", "GROUP", "BY", "airline_name", "ORDER", "BY", "flight_count",
      "DESC", "LIMIT", "5">>

AircraftStatsQuery ==
    <<"SELECT", "a.aircraft_model,", "a.manufacturer,", "COUNT(f.flight_id)",
      "as", "flight_count,", "COUNT(DISTINCT", "f.airline_name)", "as",
      "airlines_using", "FROM", "aircraft", "a", "JOIN", "flights", "f", "ON",
      "a.aircraft_reg", "=", "f.aircraft_reg", "GROUP", "BY",
      "a.aircraft_model,", "a.manufacturer", "ORDER", "BY", "flight_count",
      "DESC", "LIMIT", "10">>

ManufacturerQuery ==
    <<"SELECT", "manufacturer,", "COUNT(*)", "as", "aircraft_count", "FROM",
      "aircraft", "GROUP", "BY", "manufacturer", "ORDER", "BY", "aircraft_count",
      "DESC">>

AirportListQuery ==
    <<"SELECT", "iata_code,", "name,", "city", "FROM", "airports", "ORDER", "BY",
      "name">>

AirportInfoQuery ==
    <<"SELECT", "*", "FROM", "airports", "WHERE", "iata_code", "=", "?">>

DelayStatsQuery ==
    <<"SELECT", "COUNT(*)", "as", "total_flights,", "SUM(CASE", "WHEN",
      "delay_dep", ">", "0", "THEN", "1", "ELSE", "0", "END)", "as",
      "delayed_flights,", "ROUND(AVG(CASE", "WHEN", "delay_dep", ">", "0",
      "THEN", "delay_dep", "END),", "2)", "as", "avg_delay,", "MAX(delay_dep)",
      "as", "max_delay", "FROM", "flights">>

AirportDelaysQuery ==
    <<"SELECT", "ap.name", "AS", "airport_name,", "ap.iata_code,",
      "COUNT(f.flight_id)", "as", "total_flights,", "SUM(CASE", "WHEN",
      "f.delay_dep", ">", "0", "THEN", "1", "ELSE", "0", "END)", "as",
      "delayed_flights,", "ROUND(AVG(CASE", "WHEN", "f.delay_dep", ">", "0",
      "THEN", "f.delay_dep", "END),", "2)", "as", "avg_delay,",
      "ROUND((SUM(CASE", "WHEN", "f.delay_dep", ">", "0", "THEN", "1", "ELSE",
      "0", "END)", "*", "100.0)", "/", "COUNT(f.flight_id),", "2)", "as",
      "delay_percentage", "FROM", "airports", "ap", "JOIN", "flights", "f", "ON",
      "ap.icao_code", "=", "f.origin_icao", "GROUP", "BY", "ap.name,",
      "ap.iata_code", "HAVING", "total_flights", ">", "10", "ORDER", "BY",
      "delay_percentage", "DESC">>

(***************************************************************************)
(* The query catalog of the SQL Query Results page.                        *)
(***************************************************************************)
Query1 ==
    <<"SELECT", "a.aircraft_model,", "COUNT(f.flight_id)", "AS", "total_flights",
      "FROM", "flights", "f", "JOIN", "aircraft", "a", "ON", "f.aircraft_reg",
      "=", "a.aircraft_reg", "GROUP", "BY", "a.aircraft_model", "ORDER", "BY",
      "total_flights", "DESC">>

Query2 ==
    <<"SELECT", "a.aircraft_reg", "AS", "registration,", "a.aircraft_model",
      "AS", "model,", "a.manufacturer,", "COUNT(f.flight_id)", "AS",
      "flight_count", "FROM", "aircraft", "a", "JOIN", "flights", "f", "ON",
      "a.aircraft_reg", "=", "f.aircraft_reg", "GROUP", "BY", "a.aircraft_reg,",
      "a.aircraft_model,", "a.manufacturer", "HAVING", "COUNT(f.flight_id)", ">",
      "5", "ORDER", "BY", "flight_count", "DESC">>

Query3 ==
    <<"SELECT", "ap.name", "AS", "airport_name,", "ap.city,", "ap.country,",
      "COUNT(f.flight_id)", "AS", "outbound_flights", "FROM", "airports", "ap",
      "JOIN", "flights", "f", "ON", "ap.icao_code", "=", "f.origin_icao",
      "GROUP", "BY", "ap.icao_code,", "ap.name,", "ap.city,", "ap.country",
      "HAVING", "COUNT(f.flight_id)", ">", "5", "ORDER", "BY",
      "outbound_flights", "DESC">>

Query4 ==
    <<"SELECT", "ap.name", "AS", "airport_name,", "ap.city,", "ap.country,",
      "COUNT(f.flight_id)", "AS", "arriving_flights", "FROM", "airports", "ap",
      "JOIN", "flights", "f", "ON", "ap.icao_code", "=", "f.dest_icao", "GROUP",
      "BY", "ap.icao_code,", "ap.name,", "ap.city,", "ap.country", "ORDER", "BY",
      "arriving_flights", "DESC", "LIMIT", "3">>

Query5 ==
    <<"SELECT", "f.flight_number,", "origin.iata_code", "AS", "origin,",
      "origin.country", "AS", "origin_country,", "dest.iata_code", "AS",
      "destination,", "dest.country", "AS", "dest_country,", "CASE", "WHEN",
      "origin.country", "=", "dest.country", "THEN", "'Domestic'", "ELSE",
      "'International'", "END", "AS", "flight_type", "FROM", "flights", "f",
      "LEFT", "JOIN", "airports", "origin", "ON", "f.origin_icao", "=",
      "origin.icao_code", "LEFT", "JOIN", "airports", "dest", "ON",
      "f.dest_icao", "=", "dest.icao_code", "WHERE", "origin.icao_code", "IS",
      "NOT", "NULL", "OR", "dest.icao_code", "IS", "NOT", "NULL", "LIMIT", "200">>

Query6 ==
    <<"SELECT", "f.flight_number,", "a.aircraft_model", "AS", "aircraft,",
      "a.manufacturer,", "origin.name", "AS", "departure_airport,",
      "origin.city", "AS", "departure_city,", "f.actual_arr", "AS",
      "arrival_time,", "f.status", "FROM", "flights", "f", "LEFT", "JOIN",
      "aircraft", "a", "ON", "f.aircraft_reg", "=", "a.aircraft_reg", "LEFT",
      "JOIN", "airports", "origin", "ON", "f.origin_icao", "=",
      "origin.icao_code", "LEFT", "JOIN", "airports", "dest", "ON",
      "f.dest_icao", "=", "dest.icao_code", "WHERE", "dest.iata_code", "=",
      "'DEL'", "ORDER", "BY", "f.scheduled_arr", "DESC", "LIMIT", "5">>

Query7 ==
    <<"SELECT", "ap.iata_code,", "ap.name", "AS", "airport_name,", "ap.city,",
      "ap.country", "FROM", "airports", "ap", "LEFT", "JOIN", "flights", "f",
      "ON", "ap.icao_code", "=", "f.dest_icao", "WHERE", "f.flight_id", "IS",
      "NULL", "ORDER", "BY", "ap.name">>

Query8 ==
    <<"SELECT", "f.airline_name,", "SUM(CASE", "WHEN", "f.status", "=",
      "'Arrived'", "THEN", "1", "ELSE", "0", "END)", "AS", "arrived,",
      "SUM(CASE", "WHEN", "f.status", "=", "'Departed'", "THEN", "1", "ELSE",
      "0", "END)", "AS", "departed,", "SUM(CASE", "WHEN", "f.status", "=",
      "'Unknown'", "THEN", "1", "ELSE", "0", "END)", "AS", "unknown,",
      "SUM(CASE", "WHEN", "f.status", "=", "'Expected'", "THEN", "1", "ELSE",
      "0", "END)", "AS", "expected,", "SUM(CASE", "WHEN", "f.status", "=",
      "'Approaching'", "THEN", "1", "ELSE", "0", "END)", "AS", "approaching,",
      "SUM(CASE", "WHEN", "f.status", "=", "'Canceled'", "THEN", "1", "ELSE",
      "0", "END)", "AS", "canceled,", "SUM(CASE", "WHEN", "f.status", "=",
      "'Delayed'", "THEN", "1", "ELSE", "0", "END)", "AS", "delayed,",
      "COUNT(f.flight_id)", "AS", "total_flights", "FROM", "flights", "f",
      "GROUP", "BY", "f.airline_name", "ORDER", "BY", "total_flights", "DESC">>

\* a catalog entry that deletes instead of reading
DeleteFlights == <<"DELETE", "FROM", "flights">>

Query9 ==
    <<"SELECT", "f.flight_number,", "f.airline_name,", "dest.name", "AS",
      "destination_airport,", "dest.city", "AS", "destination_city,",
      "f.scheduled_dep", "AS", "scheduled_departure,", "f.status", "FROM",
      "flights", "f", "LEFT", "JOIN", "aircraft", "a", "ON", "f.aircraft_reg",
      "=", "a.aircraft_reg", "LEFT", "JOIN", "airports", "origin", "ON",
      "f.origin_icao", "=", "origin.icao_code", "LEFT", "JOIN", "airports",
      "dest", "ON", "f.dest_icao", "=", "dest.icao_code", "WHERE", "f.status",
      "=", "'Canceled'", "ORDER", "BY", "f.scheduled_dep", "DESC", "NULLS", "LAST">>

Query10 ==
    <<"SELECT", "origin.city", "AS", "origin_city,", "dest.city", "AS",
      "dest_city,", "origin.iata_code", "AS", "origin_code,", "dest.iata_code",
      "AS", "dest_code,", "COUNT(DISTINCT", "a.aircraft_model)", "AS",
      "aircraft_model_count,", "GROUP_CONCAT(DISTINCT", "a.aircraft_model)",
      "AS", "aircraft_models", "FROM", "flights", "f", "LEFT", "JOIN",
      "airports", "origin", "ON", "f.origin_icao", "=", "origin.icao_code",
      "LEFT", "JOIN", "airports", "dest", "ON", "f.dest_icao", "=",
      "dest.icao_code", "LEFT", "JOIN", "aircraft", "a", "ON", "f.aircraft_reg",
      "=", "a.aircraft_reg", "GROUP", "BY", "origin.city,", "dest.city,",
      "origin.iata_code,", "dest.iata_code", "HAVING", "COUNT(DISTINCT",
      "a.aircraft_model)", ">", "2", "ORDER", "BY", "aircraft_model_count",
      "DESC", "LIMIT", "20">>

Query11 ==
    <<"SELECT", "ap.name", "AS", "airport_name,", "ap.city,", "ap.iata_code,",
      "COUNT(f.flight_id)", "AS", "total_arrivals,", "SUM(CASE", "WHEN",
      "f.status", "=", "'Delayed'", "OR", "f.delay_arr", ">", "0", "THEN", "1",
      "ELSE", "0", "END)", "AS", "delayed_arrivals,", "ROUND(", "(SUM(CASE",
      "WHEN", "f.status", "=", "'Delayed'", "OR", "f.delay_arr", ">", "0",
      "THEN", "1", "ELSE", "0", "END)", "*", "100.0)", "/",
      "COUNT(f.flight_id),", "2", ")", "AS", "delay_percentage", "FROM",
      "airports", "ap", "JOIN", "flights", "f", "ON", "ap.icao_code", "=",
      "f.dest_icao", "GROUP", "BY", "ap.icao_code,", "ap.name,", "ap.city,",
      "ap.iata_code", "HAVING", "COUNT(f.flight_id)", ">", "0", "ORDER", "BY",
      "delay_percentage", "DESC">>

CatalogKeys ==
    <<"1) Flights per Aircraft Model",
      "2) Aircraft with > 5 Flights",
      "3) Airports with > 5 Outbound Flights",
      "4) Top 3 Destination Airports",
      "5) Domestic vs International (Per Flight)",
      "6) 5 Most Recent Arrivals at DEL",
      "7) Airports with No Arriving Flights",
      "8) Flights by Status per Airline",
      "9) All Cancelled Flights",
      "10) City Pairs with > 2 Aircraft Models",
      "11) % Delayed Arrivals per Destination">>

query_options ==
    [k \in Range(CatalogKeys) |->
        CASE k = "1) Flights per Aircraft Model" -> Query1
          [] k = "2) Aircraft with > 5 Flights" -> Query2
          [] k = "3) Airports with > 5 Outbound Flights" -> Query3
          [] k = "4) Top 3 Destination Airports" -> Query4
          [] k = "5) Domestic vs International (Per Flight)" -> Query5
          [] k = "6) 5 Most Recent Arrivals at DEL" -> Query6
          [] k = "7) Airports with No Arriving Flights" -> Query7
          [] k = "8) Flights by Status per Airline" -> Query8
          [] k = "9) All Cancelled Flights" -> Query9
          [] k = "10) City Pairs with > 2 Aircraft Models" -> Query10
          [] k = "11) % Delayed Arrivals per Destination" -> Query11]

(***************************************************************************)
(* Relational helpers of the engine.                                       *)
(***************************************************************************)
CollIndex(v) == CHOOSE i \in DOMAIN Collation : Collation[i] = v

\* tuples of text compared column by column
KeyLess(a, b) ==
    \E i \in DOMAIN a :
        /\ \A j \in 1..(i - 1) : a[j] = b[j]
        /\ CollIndex(a[i]) < CollIndex(b[i])

SortKeys(S) ==
    [k \in 1..Cardinality(S) |->
        CHOOSE x \in S : Cardinality({y \in S : KeyLess(y, x)}) = k - 1]

\* GROUP BY: the groups in key order, each with its rows in arrival order
GroupBy(rows, Key(_)) ==
    LET ks == SortKeys({Key(rows[i]) : i \in DOMAIN rows})
    IN  [g \in DOMAIN ks |->
            [key |-> ks[g], rows |-> SelectSeq(rows, LAMBDA r : Key(r) = ks[g])]]

\* ORDER BY agg DESC over the groups (Agg gives each group's sort key)
OrderGroupsDesc(groups, Agg(_)) ==
    LET ord == OrderDesc([g \in DOMAIN groups |-> g], [g \in DOMAIN groups |-> Agg(groups[g])])
    IN  [k \in DOMAIN ord |-> groups[ord[k]]]

\* the joined rows <<l, r>> of a join given as pairs of row numbers
JoinRows(L, R, J, nullRow) ==
    [k \in DOMAIN J |-> <<L[J[k][1]], IF J[k][2] = 0 THEN nullRow ELSE R[J[k][2]]>>]

InnerJoinRows(L, R, On(_, _)) == JoinRows(L, R, InnerJoin(L, R, On), <<>>)

LeftJoinRows(L, R, On(_, _), nullRow) == JoinRows(L, R, LeftJoin(L, R, On), nullRow)

Count(rows, P(_)) == Len(SelectSeq(rows, P))

\* the distinct non-NULL values of a column, in the order first met
RECURSIVE DistinctInOrder(_)
DistinctInOrder(values) ==
    IF values = <<>> THEN <<>>
    ELSE LET v == Head(values)
             rest == DistinctInOrder(SelectSeq(Tail(values), LAMBDA x : x # v))
         IN  IF v = NULL THEN rest ELSE <<v>> \o rest

\* ROUND(num * 100.0 / den, 2), kept in hundredths
Percent2(num, den) == (2 * num * 10000 + den) \div (2 * den)

(***************************************************************************)
(* Catalog queries 1-4, 8, 11: aggregates over one join.                   *)
(***************************************************************************)
RunQuery1(fl, ac) ==
    LET rows == InnerJoinRows(fl, ac, LAMBDA f, a : SqlEq(f.aircraft_reg, a.aircraft_reg))
        groups == GroupBy(rows, LAMBDA r : <<r[2].aircraft_model>>)
        ord == OrderGroupsDesc(groups, LAMBDA g : Len(g.rows))
    IN  DataFrame([k \in DOMAIN ord |->
            [aircraft_model |-> ord[k].key[1], total_flights |-> Len(ord[k].rows)]])

RunQuery2(fl, ac) ==
    LET rows == InnerJoinRows(ac, fl, LAMBDA a, f : SqlEq(a.aircraft_reg, f.aircraft_reg))
        groups == GroupBy(rows, LAMBDA r :
                      <<r[1].aircraft_reg, r[1].aircraft_model, r[1].manufacturer>>)
        having == SelectSeq(groups, LAMBDA g : Len(g.rows) > 5)
        ord == OrderGroupsDesc(having, LAMBDA g : Len(g.rows))
    IN  DataFrame([k \in DOMAIN ord |->
            [registration |-> ord[k].key[1], model |-> ord[k].key[2],
             manufacturer |-> ord[k].key[3], flight_count |-> Len(ord[k].rows)]])

AirportGroups(fl, ap, On(_, _)) ==
    GroupBy(InnerJoinRows(ap, fl, On),
            LAMBDA r : <<r[1].icao_code, r[1].name, r[1].city, r[1].country>>)

RunQuery3(fl, ap) ==
    LET groups == AirportGroups(fl, ap, LAMBDA a, f : SqlEq(a.icao_code, f.origin_icao))
        having == SelectSeq(groups, LAMBDA g : Len(g.rows) > 5)
        ord == OrderGroupsDesc(having, LAMBDA g : Len(g.rows))
    IN  DataFrame([k \in DOMAIN ord |->
            [airport_name |-> ord[k].key[2], city |-> ord[k].key[3],
             country |-> ord[k].key[4], outbound_flights |-> Len(ord[k].rows)]])

RunQuery4(fl, ap) ==
    LET groups == AirportGroups(fl, ap, LAMBDA a, f : SqlEq(a.icao_code, f.dest_icao))
        ord == Limit(OrderGroupsDesc(groups, LAMBDA g : Len(g.rows)), 3)
    IN  DataFrame([k \in DOMAIN ord |->
            [airport_name |-> ord[k].key[2], city |-> ord[k].key[3],
             country |-> ord[k].key[4], arriving_flights |-> Len(ord[k].rows)]])

StatusCount(rows, status) == Count(rows, LAMBDA f : SqlEq(f.status, status))

RunQuery8(fl) ==
    LET groups == GroupBy(fl, LAMBDA f : <<f.airline_name>>)
        ord == OrderGroupsDesc(groups, LAMBDA g : Len(g.rows))
    IN  DataFrame([k \in DOMAIN ord |->
            [airline_name |-> ord[k].key[1],
             arrived |-> StatusCount(ord[k].rows, "Arrived"),
             departed |-> StatusCount(ord[k].rows, "Departed"),
             unknown |-> StatusCount(ord[k].rows, "Unknown"),
             expected |-> StatusCount(ord[k].rows, "Expected"),
             approaching |-> StatusCount(ord[k].rows, "Approaching"),
             canceled |-> StatusCount(ord[k].rows, "Canceled"),
             delayed |-> StatusCount(ord[k].rows, "Delayed"),
             total_flights |-> Len(ord[k].rows)]])

DelayedArrivals(rows) ==
    Count(rows, LAMBDA r : SqlEq(r[2].status, "Delayed") \/ r[2].delay_arr > 0)

RunQuery11(fl, ap) ==
    LET rows == InnerJoinRows(ap, fl, LAMBDA a, f : SqlEq(a.icao_code, f.dest_icao))
        groups == GroupBy(rows, LAMBDA r :
                      <<r[1].icao_code, r[1].name, r[1].city, r[1].iata_code>>)
        having == SelectSeq(groups, LAMBDA g : Len(g.rows) > 0)
        ord == OrderGroupsDesc(having,
                   LAMBDA g : Percent2(DelayedArrivals(g.rows), Len(g.rows)))
    IN  DataFrame([k \in DOMAIN ord |->
            [airport_name |-> ord[k].key[2], city |-> ord[k].key[3],
             iata_code |-> ord[k].key[4], total_arrivals |-> Len(ord[k].rows),
             delayed_arrivals |-> DelayedArrivals(ord[k].rows),
             delay_percentage |->
                 Percent2(DelayedArrivals(ord[k].rows), Len(ord[k].rows))]])

(***************************************************************************)
(* Catalog queries 5, 6, 7, 9, 10: outer joins.                            *)
(***************************************************************************)
Query5Limit == 200

\* text without its letter case, for the values of the data sets
Upper(v) == IF v = "in" THEN "IN" ELSE v

\* the classification of query 5 comparing countries without letter case
FlightTypeNoCase(origin_country, dest_country) ==
    IF SqlEq(Upper(origin_country), Upper(dest_country))
    THEN "Domestic" ELSE "International"

\* CASE WHEN origin.country = dest.country THEN 'Domestic' ELSE 'International'
FlightType(origin_country, dest_country) ==
    IF SqlEq(origin_country, dest_country) THEN "Domestic" ELSE "International"

\* flights f LEFT JOIN airports origin LEFT JOIN airports dest: <<<<f, origin>>, dest>>
WithOriginDest(fl, ap) ==
    LeftJoinRows(
        LeftJoinRows(fl, ap, LAMBDA f, o : SqlEq(f.origin_icao, o.icao_code), NullAirport),
        ap, LAMBDA r, d : SqlEq(r[1].dest_icao, d.icao_code), NullAirport)

\* the WHERE of query 5 with AND for OR: only fully resolved flights
Query5WhereBothSides(origin, dest) == origin.icao_code # NULL /\ dest.icao_code # NULL

Query5Where(origin, dest) == origin.icao_code # NULL \/ dest.icao_code # NULL

RunQuery5(fl, ap) ==
    LET hits == SelectSeq(WithOriginDest(fl, ap), LAMBDA r : Query5Where(r[1][2], r[2]))
        top == Limit(hits, Query5Limit)
    IN  DataFrame([k \in DOMAIN top |->
            [flight_number |-> top[k][1][1].flight_number,
             origin |-> top[k][1][2].iata_code,
             origin_country |-> top[k][1][2].country,
             destination |-> top[k][2].iata_code,
             dest_country |-> top[k][2].country,
             flight_type |-> FlightType(top[k][1][2].country, top[k][2].country)]])

\* flights f LEFT JOIN aircraft a LEFT JOIN airports origin LEFT JOIN airports
\* dest: [f, a, origin, dest]
WithAircraftOriginDest(fl, ap, ac) ==
    LET j1 == LeftJoinRows(fl, ac, LAMBDA f, a : SqlEq(f.aircraft_reg, a.aircraft_reg),
                           NullAircraft)
        j2 == LeftJoinRows(j1, ap, LAMBDA r, o : SqlEq(r[1].origin_icao, o.icao_code),
                           NullAirport)
        j3 == LeftJoinRows(j2, ap, LAMBDA r, d : SqlEq(r[1][1].dest_icao, d.icao_code),
                           NullAirport)
    IN  [k \in DOMAIN j3 |->
            [f |-> j3[k][1][1][1], a |-> j3[k][1][1][2], origin |-> j3[k][1][2],
             dest |-> j3[k][2]]]

OrderRowsDesc(rows, Key(_)) ==
    LET ord == OrderDesc([i \in DOMAIN rows |-> i], [i \in DOMAIN rows |-> Key(rows[i])])
    IN  [k \in DOMAIN ord |-> rows[ord[k]]]

RunQuery6(fl, ap, ac) ==
    LET hits == SelectSeq(WithAircraftOriginDest(fl, ap, ac),
                          LAMBDA r : SqlEq(r.dest.iata_code, "DEL"))
        top == Limit(OrderRowsDesc(hits, LAMBDA r : r.f.scheduled_arr), 5)
    IN  DataFrame([k \in DOMAIN top |->
            [flight_number |-> top[k].f.flight_number,
             aircraft |-> top[k].a.aircraft_model,
             manufacturer |-> top[k].a.manufacturer,
             departure_airport |-> top[k].origin.name,
             departure_city |-> top[k].origin.city,
             arrival_time |-> top[k].f.actual_arr,
             status |-> top[k].f.status]])

\* the anti-join of query 7 testing a nullable column of flights
Query7WhereOnRegistration(f) == f.aircraft_reg = NULL

Query7Where(f) == f.flight_id = NullInt

RunQuery7(fl, ap) ==
    LET rows == LeftJoinRows(ap, fl, LAMBDA a, f : SqlEq(a.icao_code, f.dest_icao),
                             NullFlight)
        hits == SelectSeq(rows, LAMBDA r : Query7Where(r[2]))
        ord == OrderRowsDesc(hits, LAMBDA r : 0 - CollIndex(r[1].name))
    IN  DataFrame([k \in DOMAIN ord |->
            [iata_code |-> ord[k][1].iata_code, airport_name |-> ord[k][1].name,
             city |-> ord[k][1].city, country |-> ord[k][1].country]])

RunQuery9(fl, ap, ac) ==
    LET hits == SelectSeq(WithAircraftOriginDest(fl, ap, ac),
                          LAMBDA r : SqlEq(r.f.status, "Canceled"))
        ord == OrderRowsDesc(hits, LAMBDA r : r.f.scheduled_dep)
    IN  DataFrame([k \in DOMAIN ord |->
            [flight_number |-> ord[k].f.flight_number,
             airline_name |-> ord[k].f.airline_name,
             destination_airport |-> ord[k].dest.name,
             destination_city |-> ord[k].dest.city,
             scheduled_departure |-> ord[k].f.scheduled_dep,
             status |-> ord[k].f.status]])

Models(rows) == DistinctInOrder([i \in DOMAIN rows |-> rows[i].a.aircraft_model])

RunQuery10(fl, ap, ac) ==
    LET groups == GroupBy(WithAircraftOriginDest(fl, ap, ac), LAMBDA r :
                      <<r.origin.city, r.dest.city, r.origin.iata_code, r.dest.iata_code>>)
        having == SelectSeq(groups, LAMBDA g : Len(Models(g.rows)) > 2)
        top == Limit(OrderGroupsDesc(having, LAMBDA g : Len(Models(g.rows))), 20)
    IN  DataFrame([k \in DOMAIN top |->
            [origin_city |-> top[k].key[1], dest_city |-> top[k].key[2],
             origin_code |-> top[k].key[3], dest_code |-> top[k].key[4],
             aircraft_model_count |-> Len(Models(top[k].rows)),
             aircraft_models |-> Models(top[k].rows)]])

(***************************************************************************)
(* The statements of the other pages.                                      *)
(***************************************************************************)
RunCount(table) == DataFrame(<<[count |-> Len(table)]>>)

RunAirlineCount(fl) ==
    DataFrame(<<[count |-> Cardinality({fl[i].airline_name : i \in DOMAIN fl} \ {NULL})]>>)

RunDistinct(values) ==
    LET d == DistinctAscending(values) IN DataFrame([k \in DOMAIN d |-> [value |-> d[k]]])

RunStatusDistribution(fl) ==
    LET ord == OrderGroupsDesc(GroupBy(fl, LAMBDA f : <<f.status>>), LAMBDA g : Len(g.rows))
    IN  DataFrame([k \in DOMAIN ord |-> [status |-> ord[k].key[1], count |-> Len(ord[k].rows)]])

RunTopAirlines(fl) ==
    LET ord == Limit(OrderGroupsDesc(GroupBy(fl, LAMBDA f : <<f.airline_name>>),
                                     LAMBDA g : Len(g.rows)), 5)
    IN  DataFrame([k \in DOMAIN ord |->
            [airline_name |-> ord[k].key[1], flight_count |-> Len(ord[k].rows)]])

RunAircraftStats(fl, ac) ==
    LET rows == InnerJoinRows(ac, fl, LAMBDA a, f : SqlEq(a.aircraft_reg, f.aircraft_reg))
        groups == GroupBy(rows, LAMBDA r : <<r[1].aircraft_model, r[1].manufacturer>>)
        ord == Limit(OrderGroupsDesc(groups, LAMBDA g : Len(g.rows)), 10)
    IN  DataFrame([k \in DOMAIN ord |->
            [aircraft_model |-> ord[k].key[1], manufacturer |-> ord[k].key[2],
             flight_count |-> Len(ord[k].rows),
             airlines_using |->
                 Cardinality({ord[k].rows[i][2].airline_name : i \in DOMAIN ord[k].rows}
                             \ {NULL})]])

RunManufacturers(ac) ==
    LET ord == OrderGroupsDesc(GroupBy(ac, LAMBDA a : <<a.manufacturer>>),
                               LAMBDA g : Len(g.rows))
    IN  DataFrame([k \in DOMAIN ord |->
            [manufacturer |-> ord[k].key[1], aircraft_count |-> Len(ord[k].rows)]])

RunAirportList(ap) ==
    LET ord == OrderRowsDesc(ap, LAMBDA a : 0 - CollIndex(a.name))
    IN  DataFrame([k \in DOMAIN ord |->
            [iata_code |-> ord[k].iata_code, name |-> ord[k].name, city |-> ord[k].city]])

RunAirportInfo(params, ap) ==
    DataFrame(SelectSeq(ap, LAMBDA a : SqlEq(a.iata_code, params[1])))

RECURSIVE WeightedSum(_, _)
WeightedSum(S, weight) ==
    IF S = {} THEN 0
    ELSE LET v == CHOOSE x \in S : TRUE
         IN  v * weight[v] + WeightedSum(S \ {v}, weight)

\* ROUND(AVG(CASE WHEN delay_dep > 0 THEN delay_dep END), 2), in hundredths
AvgDelay(rows, Delay(_)) ==
    LET late == SelectSeq(rows, LAMBDA r : Delay(r) > 0)
        vals == {Delay(late[i]) : i \in DOMAIN late}
        total == WeightedSum(vals, [v \in vals |-> Count(late, LAMBDA r : Delay(r) = v)])
    IN  IF late = <<>> THEN NullInt
        ELSE (2 * 100 * total + Len(late)) \div (2 * Len(late))

RunDelayStats(fl) ==
    DataFrame(<<[total_flights |-> Len(fl),
                 delayed_flights |->
                     IF fl = <<>> THEN NullInt ELSE Count(fl, LAMBDA f : f.delay_dep > 0),
                 avg_delay |-> AvgDelay(fl, LAMBDA f : f.delay_dep),
                 max_delay |->
                     IF fl = <<>> THEN NullInt
                     ELSE MaxOf({fl[i].delay_dep : i \in DOMAIN fl})]>>)

RunAirportDelays(fl, ap) ==
    LET rows == InnerJoinRows(ap, fl, LAMBDA a, f : SqlEq(a.icao_code, f.origin_icao))
        groups == GroupBy(rows, LAMBDA r : <<r[1].name, r[1].iata_code>>)
        late(g) == Count(g.rows, LAMBDA r : r[2].delay_dep > 0)
        having == SelectSeq(groups, LAMBDA g : Len(g.rows) > 10)
        ord == OrderGroupsDesc(having, LAMBDA g : Percent2(late(g), Len(g.rows)))
    IN  DataFrame([k \in DOMAIN ord |->
            [airport_name |-> ord[k].key[1], iata_code |-> ord[k].key[2],
             total_flights |-> Len(ord[k].rows), delayed_flights |-> late(ord[k]),
             avg_delay |-> AvgDelay(ord[k].rows, LAMBDA r : r[2].delay_dep),
             delay_percentage |-> Percent2(late(ord[k]), Len(ord[k].rows))]])

(***************************************************************************)
(* The engine: pd.read_sql_query(query, conn, params) on the tables.       *)
(***************************************************************************)
RunSelect(query, params, fl, ap, ac) ==
    CASE IsExplorerQuery(query) -> RunExplorer(query, params, fl, ap)
      [] query = AirlineDomainQuery ->
            RunDistinct({fl[i].airline_name : i \in DOMAIN fl})
      [] query = StatusDomainQuery -> RunDistinct({fl[i].status : i \in DOMAIN fl})
      [] query = OriginDomainQuery -> RunDistinct({ap[i].iata_code : i \in DOMAIN ap})
      [] query = FlightCountQuery -> RunCount(fl)
      [] query = AircraftCountQuery -> RunCount(ac)
      [] query = AirportCountQuery -> RunCount(ap)
      [] query = AirlineCountQuery -> RunAirlineCount(fl)
      [] query = StatusDistributionQuery -> RunStatusDistribution(fl)
      [] query = TopAirlinesQuery -> RunTopAirlines(fl)
      [] query = AircraftStatsQuery -> RunAircraftStats(fl, ac)
      [] query = ManufacturerQuery -> RunManufacturers(ac)
      [] query = AirportListQuery -> RunAirportList(ap)
      [] query = AirportInfoQuery -> RunAirportInfo(params, ap)
      [] query = DelayStatsQuery -> RunDelayStats(fl)
      [] query = AirportDelaysQuery -> RunAirportDelays(fl, ap)
      [] query = Query1 -> RunQuery1(fl, ac)
      [] query = Query2 -> RunQuery2(fl, ac)
      [] query = Query3 -> RunQuery3(fl, ap)
      [] query = Query4 -> RunQuery4(fl, ap)
      [] query = Query5 -> RunQuery5(fl, ap)
      [] query = Query6 -> RunQuery6(fl, ap, ac)
      [] query = Query7 -> RunQuery7(fl, ap)
      [] query = Query8 -> RunQuery8(fl)
      [] query = Query9 -> RunQuery9(fl, ap, ac)
      [] query = Query10 -> RunQuery10(fl, ap, ac)
      [] query = Query11 -> RunQuery11(fl, ap)
      [] OTHER -> DatabaseError

\* what the call returns: sqlite3 refuses a statement whose placeholders and
\* bound parameters differ in number, and read_sql_query needs a result set
Execute(query, params, fl, ap, ac) ==
    IF Placeholders(query) = Len(params) /\ Head(query) = "SELECT"
    THEN RunSelect(query, params, fl, ap, ac)
    ELSE DatabaseError

\* what the statement leaves in the flights table: a SELECT leaves it alone
FlightsAfter(query, params, fl) ==
    IF Placeholders(query) = Len(params) /\ Head(query) = "DELETE" THEN <<>> ELSE fl

(***************************************************************************)
(* Sessions.  Every widget event reruns the script from the top for the    *)
(* page chosen in the sidebar; script[s] holds the get_data calls the run  *)
(* still has to make.                                                      *)
(***************************************************************************)
Call(query, params) == [query |-> query, params |-> params]

NoStatement == Call(<<>>, <<>>)

NotLoaded == "not loaded"

AirlineOptions(fl) == <<"All">> \o DistinctAscending({fl[i].airline_name : i \in DOMAIN fl})

StatusOptions(fl) == <<"All">> \o DistinctAscending({fl[i].status : i \in DOMAIN fl})

OriginOptions(ap) == <<"All">> \o DistinctAscending({ap[i].iata_code : i \in DOMAIN ap})

\* the options of the Airport Location selector; None when there is no airport
AirportChoices(ap) ==
    IF ap = <<>> THEN {NULL} ELSE {ap[i].iata_code : i \in DOMAIN ap}

HomeScript ==
    <<Call(FlightCountQuery, <<>>), Call(AircraftCountQuery, <<>>),
      Call(AirportCountQuery, <<>>), Call(AirlineCountQuery, <<>>),
      Call(StatusDistributionQuery, <<>>), Call(TopAirlinesQuery, <<>>)>>

ExplorerScript(selected_airline, selected_status, selected_origin) ==
    <<Call(AirlineDomainQuery, <<>>), Call(StatusDomainQuery, <<>>),
      Call(OriginDomainQuery, <<>>),
      ComposeExplorer(selected_airline, selected_status, selected_origin)>>

\* a lookup that falls back to the first entry on a missing key
LookupWithDefault(options, key) ==
    [ok |-> TRUE, value |-> IF key \in DOMAIN options THEN options[key]
                            ELSE options[CatalogKeys[1]]]

\* query_options[selected_query]: a dict lookup, KeyError on a missing key
Lookup(options, key) ==
    IF key \in DOMAIN options
    THEN [ok |-> TRUE, value |-> options[key]]
    ELSE [ok |-> FALSE, error |-> "KeyError"]

\* st.cache_resource: the first call opens the connection, every later call
\* of any session gets the same object
get_connection(cached) == IF cached = "none" THEN "air_tracker.db" ELSE cached

Ready(s) == pc[s] = "idle" /\ script[s] = <<>>

\* the widgets' defaults; Streamlit drops the state of a widget the run of
\* another page does not render
NoSelection ==
    [airline |-> "All", status |-> "All", origin |-> "All", airport |-> NULL,
     query |-> CatalogKeys[1]]

\* a run starts from the top: the previous run's DataFrames are gone
Rerun(s, p, sel, calls) ==
    /\ page' = [page EXCEPT ![s] = p]
    /\ selected' = [selected EXCEPT ![s] = sel]
    /\ script' = [script EXCEPT ![s] = calls]
    /\ stmt' = [stmt EXCEPT ![s] = NoStatement]
    /\ result' = [result EXCEPT ![s] = NoFrame]
    /\ UNCHANGED <<flights, airports, aircraft, conn, pc, handle>>

HomeDashboard(s) ==
    /\ Ready(s)
    /\ Rerun(s, "Home Dashboard", NoSelection, HomeScript)

FlightExplorer(s) ==
    /\ Ready(s)
    /\ page[s] # NotLoaded
    /\ \E a \in Range(AirlineOptions(flights)), st \in Range(StatusOptions(flights)),
          o \in Range(OriginOptions(airports)) :
          Rerun(s, "Flight Explorer",
                [NoSelection EXCEPT !.airline = a, !.status = st, !.origin = o],
                ExplorerScript(a, st, o))

AircraftAnalytics(s) ==
    /\ Ready(s)
    /\ page[s] # NotLoaded
    /\ Rerun(s, "Aircraft Analytics", NoSelection,
             <<Call(AircraftStatsQuery, <<>>), Call(ManufacturerQuery, <<>>)>>)

AirportLocation(s) ==
    /\ Ready(s)
    /\ page[s] # NotLoaded
    /\ \E x \in AirportChoices(airports) :
          Rerun(s, "Airport Location", [NoSelection EXCEPT !.airport = x],
                <<Call(AirportListQuery, <<>>), Call(AirportInfoQuery, <<x>>)>>)

DelayInsights(s) ==
    /\ Ready(s)
    /\ page[s] # NotLoaded
    /\ Rerun(s, "Delay Insights", NoSelection,
             <<Call(DelayStatsQuery, <<>>), Call(AirportDelaysQuery, <<>>)>>)

AboutProject(s) ==
    /\ Ready(s)
    /\ page[s] # NotLoaded
    /\ Rerun(s, "About Project", NoSelection, <<>>)

\* "Execute Query" pressed with selected_query = key; the KeyError of a
\* missing key ends the run before get_data is called
ExecuteQuery(s, key) ==
    /\ Ready(s)
    /\ page[s] # NotLoaded
    /\ IF Lookup(query_options, key).ok
       THEN Rerun(s, "SQL Query Results", [NoSelection EXCEPT !.query = key],
                  <<Call(Lookup(query_options, key).value, <<>>)>>)
       ELSE /\ page' = [page EXCEPT ![s] = "SQL Query Results"]
            /\ selected' = [selected EXCEPT ![s] = [NoSelection EXCEPT !.query = key]]
            /\ script' = [script EXCEPT ![s] = <<>>]
            /\ stmt' = [stmt EXCEPT ![s] = NoStatement]
            /\ result' = [result EXCEPT ![s] = Lookup(query_options, key)]
            /\ UNCHANGED <<flights, airports, aircraft, conn, pc, handle>>

SqlQueryResults(s) == \E key \in Range(CatalogKeys) : ExecuteQuery(s, key)

\* get_data up to the call of pd.read_sql_query
GetDataBegin(s) ==
    /\ pc[s] = "idle"
    /\ script[s] # <<>>
    /\ LET call == Head(script[s])
       IN  /\ conn' = get_connection(conn)
           /\ handle' = [handle EXCEPT ![s] = conn']
           /\ stmt' = [stmt EXCEPT ![s] =
                  Call(call.query, IF Truthy(call.params) THEN call.params ELSE <<>>)]
    /\ script' = [script EXCEPT ![s] = Tail(script[s])]
    /\ pc' = [pc EXCEPT ![s] = "running"]
    /\ UNCHANGED <<flights, airports, aircraft, page, selected, result>>

Reverse(rows) == [k \in DOMAIN rows |-> rows[Len(rows) + 1 - k]]

\* an engine whose row order depends on who asks: the second session gets
\* the rows from the other end of the scan
FrameFor(s, frame) ==
    IF s = "s2" /\ frame.ok THEN DataFrame(Reverse(frame.rows)) ELSE frame

GetDataEndScanOrderVaries(s) ==
    /\ pc[s] = "running"
    /\ result' = [result EXCEPT ![s] =
           FrameFor(s, Execute(stmt[s].query, stmt[s].params, flights, airports, aircraft))]
    /\ flights' = FlightsAfter(stmt[s].query, stmt[s].params, flights)
    /\ script' = [script EXCEPT ![s] = IF result'[s].ok THEN script[s] ELSE <<>>]
    /\ pc' = [pc EXCEPT ![s] = "idle"]
    /\ UNCHANGED <<airports, aircraft, conn, page, selected, stmt, handle>>

\* pd.read_sql_query returns (or raises: an exception ends the script run)
GetDataEnd(s) ==
    /\ pc[s] = "running"
    /\ result' = [result EXCEPT ![s] =
           Execute(stmt[s].query, stmt[s].params, flights, airports, aircraft)]
    /\ flights' = FlightsAfter(stmt[s].query, stmt[s].params, flights)
    /\ script' = [script EXCEPT ![s] = IF result'[s].ok THEN script[s] ELSE <<>>]
    /\ pc' = [pc EXCEPT ![s] = "idle"]
    /\ UNCHANGED <<airports, aircraft, conn, page, selected, stmt, handle>>

(***************************************************************************)
(* Initial states: a dataset, no connection yet, no session loaded.        *)
(***************************************************************************)
InitSessions ==
    /\ conn = "none"
    /\ page = [s \in Sessions |-> NotLoaded]
    /\ selected = [s \in Sessions |-> NoSelection]
    /\ script = [s \in Sessions |-> <<>>]
    /\ pc = [s \in Sessions |-> "idle"]
    /\ stmt = [s \in Sessions |-> NoStatement]
    /\ handle = [s \in Sessions |-> "none"]
    /\ result = [s \in Sessions |-> NoFrame]

\* flights of two airlines and two statuses, from Delhi at two times or, later,
\* from an origin that is in no airport row
ExplorerKinds ==
    {Flight(k[1], k[2], o[1], "VABB", o[2], "VT-IFA") :
        k \in {<<"IndiGo", "Arrived">>, <<"Air India", "Arrived">>,
               <<"Air India", "Canceled">>},
        o \in {<<"VIDP", 1>>, <<"VIDP", 2>>, <<"ZZZZ", 2>>}}

ExplorerBulk == {Flight("IndiGo", "Arrived", "VIDP", "VABB", 1, "VT-IFA")}

InitExplorer ==
    /\ flights \in FlightTables(ExplorerKinds, ExplorerBulk,
                                {0, ExplorerLimit + 1})
    /\ airports = <<DEL, BOM, XNA>>
    /\ aircraft = Fleet
    /\ InitSessions

NextExplorer ==
    \E s \in {"s1"} :
        \/ HomeDashboard(s)
        \/ FlightExplorer(s)
        \/ GetDataBegin(s)
        \/ GetDataEnd(s)

SpecExplorer == InitExplorer /\ [][NextExplorer]_vars

(***************************************************************************)
(* Properties of the Flight Explorer.                                      *)
(***************************************************************************)
\* the explorer calls of session s: still to make, in flight or returned
ExplorerCalls(s) ==
    {c \in Range(script[s]) \cup {stmt[s]} : IsExplorerQuery(c.query)}

\* the filters of a selection that are not "All", in the composer's order
SelectedFilters(sel) ==
    SelectSeq(<<[column |-> "f.airline_name", value |-> sel.airline],
                [column |-> "f.status", value |-> sel.status],
                [column |-> "origin.iata_code", value |-> sel.origin]>>,
              LAMBDA x : x.value # "All")

\* C1: for every filter selection, the parameters handed to get_data are as
\* many as the selections that are not "All", and as many as the "?"
\* placeholders of the composed SQL text (none at all when all are "All").
C1_ParamsMatchPlaceholders ==
    \A s \in Sessions : \A c \in ExplorerCalls(s) :
        /\ Len(c.params) = Len(SelectedFilters(selected[s]))
        /\ Placeholders(c.query) = Len(c.params)

\* all three filters chosen, the composed statement executed with three
\* bound parameters
C1_Witness ==
    \E s \in Sessions :
        /\ pc[s] = "idle" /\ script[s] = <<>> /\ page[s] = "Flight Explorer"
        /\ Len(SelectedFilters(selected[s])) = 3
        /\ IsExplorerQuery(stmt[s].query)
        /\ Len(stmt[s].params) = 3
        /\ result[s].ok

\* the iata code of the airport a flight departs from, NULL when none resolves
OriginCode(f, ap) ==
    IF \E i \in DOMAIN ap : SqlEq(f.origin_icao, ap[i].icao_code)
    THEN ap[CHOOSE i \in DOMAIN ap : SqlEq(f.origin_icao, ap[i].icao_code)].iata_code
    ELSE NULL

\* flight f satisfies the selected filters
MatchesSelection(f, sel, ap) ==
    /\ sel.airline = "All" \/ f.airline_name = sel.airline
    /\ sel.status = "All" \/ f.status = sel.status
    /\ sel.origin = "All" \/ OriginCode(f, ap) = sel.origin

ExplorerDone(s) ==
    /\ pc[s] = "idle" /\ page[s] = "Flight Explorer"
    /\ IsExplorerQuery(stmt[s].query) /\ result[s].ok

Shown(s) == {result[s].rows[i].flight_number : i \in DOMAIN result[s].rows}

\* C2: the explorer returns at most 100 rows, and no flight matching the
\* selected filters that departs strictly later than a returned row is
\* left out of the result.
C2_RowCapMostRecent ==
    \A s \in Sessions : ExplorerDone(s) =>
        /\ Len(result[s].rows) <= ExplorerLimit
        /\ \A i \in DOMAIN flights :
              (/\ MatchesSelection(flights[i], selected[s], airports)
               /\ \E k \in DOMAIN result[s].rows :
                     flights[i].scheduled_dep > result[s].rows[k].scheduled_dep)
              => flights[i].flight_number \in Shown(s)

\* C8: the composed SQL text is the same for every selection with the same
\* filters set, whatever their values; its clauses come in the order airline,
\* status, origin, each with a placeholder, and the i-th bound parameter is
\* the value of the i-th selected filter.
C8_TextIndependentOfValues ==
    \A s \in Sessions : \A c \in ExplorerCalls(s) :
        LET chosen == SelectedFilters(selected[s])
            clauses == Clauses(c.query)
        IN  /\ Len(clauses) = Len(chosen)
            /\ \A k \in DOMAIN clauses :
                  /\ clauses[k].column = chosen[k].column
                  /\ clauses[k].operand = "?"
            /\ c.params = [k \in DOMAIN chosen |-> chosen[k].value]
            /\ \A a \in Range(AirlineOptions(flights)),
                  st \in Range(StatusOptions(flights)),
                  o \in Range(OriginOptions(airports)) :
                  (/\ (a = "All") = (selected[s].airline = "All")
                   /\ (st = "All") = (selected[s].status = "All")
                   /\ (o = "All") = (selected[s].origin = "All"))
                  => ComposeExplorer(a, st, o).query = c.query

\* two filters chosen among several values each, the statement executed
C8_Witness ==
    \E s \in Sessions :
        /\ ExplorerDone(s) /\ script[s] = <<>>
        /\ selected[s].airline # "All" /\ selected[s].origin # "All"
        /\ selected[s].status = "All"
        /\ Len(AirlineOptions(flights)) > 2 /\ Len(OriginOptions(airports)) > 2
        /\ Len(result[s].rows) > 0

(***************************************************************************)
(* The catalog page on data sets with unresolved airports.                 *)
(***************************************************************************)
CatalogFlight(o, d) ==
    Flight(IF o = "VIDP" THEN "IndiGo" ELSE "Air India",
           CASE d = "KJFK" -> "Diverted" [] d = "VECC" -> "Canceled" [] OTHER -> "Arrived",
           o, d, 1,
           CASE d = "VABB" -> "VT-IFA" [] d = "KJFK" -> "VT-ANB" [] d = "VECC" -> "VT-IFC"
             [] OTHER -> NULL)

CatalogKinds ==
    {CatalogFlight(o, d) : o \in {"VIDP", "VOXX", NULL},
                           d \in {"VABB", "KJFK", "VECC", "VOXX", "ZZZZ"}}

InitCatalog ==
    /\ flights \in FlightTables(CatalogKinds, {CatalogFlight("VIDP", "VABB")},
                                {0, Query5Limit + 1})
    /\ airports = <<DEL, BOM, JFK, CCU, XNA>>
    /\ aircraft = Fleet
    /\ InitSessions

NextCatalog ==
    \E s \in {"s1"} :
        \/ HomeDashboard(s)
        \/ SqlQueryResults(s)
        \/ GetDataBegin(s)
        \/ GetDataEnd(s)

SpecCatalog == InitCatalog /\ [][NextCatalog]_vars

\* session s shows the DataFrame of catalog entry key
CatalogDone(s, key) ==
    /\ pc[s] = "idle" /\ page[s] = "SQL Query Results"
    /\ selected[s].query = key /\ stmt[s].query = query_options[key]
    /\ result[s].ok

Resolves(icao) == \E j \in DOMAIN airports : SqlEq(icao, airports[j].icao_code)

AirportOf(icao) ==
    IF Resolves(icao)
    THEN airports[CHOOSE j \in DOMAIN airports : SqlEq(icao, airports[j].icao_code)]
    ELSE NullAirport

\* the flights with a resolving origin or destination
HalfResolved ==
    {i \in DOMAIN flights : Resolves(flights[i].origin_icao) \/ Resolves(flights[i].dest_icao)}

RowsOf(s, n) == {k \in DOMAIN result[s].rows : result[s].rows[k].flight_number = n}

\* the row shows the flight's two sides: an unresolved side as missing
HalfPopulated(row, f) ==
    /\ row.origin = AirportOf(f.origin_icao).iata_code
    /\ row.origin_country = AirportOf(f.origin_icao).country
    /\ row.destination = AirportOf(f.dest_icao).iata_code
    /\ row.dest_country = AirportOf(f.dest_icao).country

Q5 == "5) Domestic vs International (Per Flight)"

Q7 == "7) Airports with No Arriving Flights"

\* C3 as claimed: in every data set a flight with neither side resolving is
\* excluded from query 5, and a flight with at least one side resolving
\* appears, its unresolved side missing.
C3_EveryHalfResolvedFlightAppears ==
    \A s \in Sessions : CatalogDone(s, Q5) =>
        \A i \in DOMAIN flights :
            IF i \in HalfResolved
            THEN \E k \in RowsOf(s, flights[i].flight_number) :
                     HalfPopulated(result[s].rows[k], flights[i])
            ELSE RowsOf(s, flights[i].flight_number) = {}

\* C3: a flight with neither side resolving is never in the result of query
\* 5; the result holds min(200, n) rows for n flights with a resolving side,
\* each row for a different one of them with its unresolved side missing, so
\* every such flight appears whenever they are at most 200.
C3_HalfResolvedWithinLimit ==
    \A s \in Sessions : CatalogDone(s, Q5) =>
        /\ Len(result[s].rows) = Min(Cardinality(HalfResolved), Query5Limit)
        /\ \A i \in DOMAIN flights :
              /\ i \notin HalfResolved => RowsOf(s, flights[i].flight_number) = {}
              /\ Cardinality(RowsOf(s, flights[i].flight_number)) <= 1
              /\ \A k \in RowsOf(s, flights[i].flight_number) :
                    HalfPopulated(result[s].rows[k], flights[i])
        /\ Cardinality(HalfResolved) <= Query5Limit =>
              \A i \in HalfResolved : RowsOf(s, flights[i].flight_number) # {}

\* more than 200 flights qualify, and a flight whose destination does not
\* resolve is shown with its destination missing
C3_Witness ==
    \E s \in Sessions :
        /\ CatalogDone(s, Q5)
        /\ Cardinality(HalfResolved) > Query5Limit
        /\ \E i \in HalfResolved :
              /\ ~Resolves(flights[i].dest_icao)
              /\ \E k \in RowsOf(s, flights[i].flight_number) :
                    /\ result[s].rows[k].destination = NULL
                    /\ result[s].rows[k].origin # NULL

\* C4: every row of query 5 is 'Domestic' exactly when its origin country
\* and its destination country are the same text, letter case included, and
\* 'International' otherwise, also when a country is missing.
C4_DomesticIffSameCountry ==
    \A s \in Sessions : CatalogDone(s, Q5) =>
        \A k \in DOMAIN result[s].rows :
            LET row == result[s].rows[k]
                known == row.origin_country # NULL /\ row.dest_country # NULL
            IN  /\ row.flight_type \in {"Domestic", "International"}
                /\ row.flight_type = "Domestic" <=>
                      (known /\ row.origin_country = row.dest_country)
                /\ \E i \in DOMAIN flights :
                      /\ flights[i].flight_number = row.flight_number
                      /\ HalfPopulated(row, flights[i])

\* a Domestic row, and an International row with one country missing
C4_Witness ==
    \E s \in Sessions :
        /\ CatalogDone(s, Q5)
        /\ \E k \in DOMAIN result[s].rows :
              /\ result[s].rows[k].flight_type = "Domestic"
              /\ result[s].rows[k].origin_country = "IN"
        /\ \E k \in DOMAIN result[s].rows :
              /\ result[s].rows[k].flight_type = "International"
              /\ result[s].rows[k].dest_country = NULL
              /\ result[s].rows[k].origin_country = "IN"

Arrivals(a) == {i \in DOMAIN flights : SqlEq(a.icao_code, flights[i].dest_icao)}

\* C5: an airport no flight has as destination appears exactly once in the
\* result of query 7, and an airport with an arriving flight never does.
C5_NoArrivalsExactlyOnce ==
    \A s \in Sessions : CatalogDone(s, Q7) =>
        \A j \in DOMAIN airports :
            Cardinality({k \in DOMAIN result[s].rows :
                            result[s].rows[k].airport_name = airports[j].name})
                = IF Arrivals(airports[j]) = {} THEN 1 ELSE 0

\* an airport with arrivals left out, and an airport without arrivals listed
C5_Witness ==
    \E s \in Sessions :
        /\ CatalogDone(s, Q7)
        /\ \E j \in DOMAIN airports :
              /\ Cardinality(Arrivals(airports[j])) > 1
              /\ \A k \in DOMAIN result[s].rows :
                    result[s].rows[k].airport_name # airports[j].name
        /\ \E j \in DOMAIN airports :
              /\ Arrivals(airports[j]) = {}
              /\ \E k \in DOMAIN result[s].rows :
                    result[s].rows[k].airport_name = airports[j].name

(***************************************************************************)
(* The lookup of the catalog applied to any identifier, a key or not.      *)
(***************************************************************************)
UnknownIdentifiers == {"", "12) Not in the catalog", "1) flights per aircraft model"}

Identifiers == Range(CatalogKeys) \cup UnknownIdentifiers

AnyIdentifier(s) == \E key \in Identifiers : ExecuteQuery(s, key)

InitLookup ==
    /\ flights \in FlightTables(CatalogKinds, {CatalogFlight("VIDP", "VABB")}, {0})
    /\ airports = <<DEL, BOM, JFK, CCU, XNA>>
    /\ aircraft = Fleet
    /\ InitSessions

NextLookup ==
    \E s \in {"s1"} :
        \/ HomeDashboard(s)
        \/ AnyIdentifier(s)
        \/ GetDataBegin(s)
        \/ GetDataEnd(s)

SpecLookup == InitLookup /\ [][NextLookup]_vars

\* the statements of the current run of s: to make, in flight or returned
RunCalls(s) == (Range(script[s]) \cup {stmt[s]}) \ {NoStatement}

\* C6: an identifier that is a key of the catalog yields exactly the text
\* stored under it, which is executed and gives a DataFrame; an identifier
\* that is no key fails with the lookup's error (KeyError, the code's
\* UnknownQueryError): no statement is executed and no DataFrame returned.
C6_LookupExactOrKeyError ==
    \A s \in Sessions : page[s] = "SQL Query Results" =>
        LET key == selected[s].query
        IN  IF \E i \in DOMAIN CatalogKeys : CatalogKeys[i] = key
            THEN /\ RunCalls(s) = {Call(query_options[key], <<>>)}
                 /\ result[s] # NoFrame => result[s].ok
                 /\ Ready(s) => result[s].ok
            ELSE /\ RunCalls(s) = {}
                 /\ pc[s] = "idle"
                 /\ result[s] = [ok |-> FALSE, error |-> "KeyError"]

\* an unknown identifier has failed, with data that a catalog entry would show
C6_Witness ==
    \E s \in Sessions :
        /\ page[s] = "SQL Query Results"
        /\ selected[s].query \in UnknownIdentifiers
        /\ result[s] = [ok |-> FALSE, error |-> "KeyError"]
        /\ flights # <<>>

(***************************************************************************)
(* Two sessions executing catalog entries against the same data, with more *)
(* rows qualifying or tying than the LIMITs admit.                         *)
(***************************************************************************)
\* how many orders of the tied flights are tried
MaxRotations == 2

Destinations == <<"VIDP", "VABB", "KJFK", "VECC", "VOXX">>

\* one flight to every destination, starting with the r-th
TiedFlights(r) ==
    [i \in DOMAIN Destinations |->
        CatalogFlight("VIDP", Destinations[((i + r - 2) % Len(Destinations)) + 1])]

InitTwice ==
    /\ flights \in {Renumber(Replicate(n, CatalogFlight("VABB", "VIDP")) \o TiedFlights(r)) :
                       n \in {0, Query5Limit + 1}, r \in 1..MaxRotations}
    /\ airports = <<DEL, BOM, JFK, CCU, XNA>>
    /\ aircraft = Fleet
    /\ InitSessions

NextTwice ==
    \E s \in Sessions :
        \/ HomeDashboard(s)
        \/ SqlQueryResults(s)
        \/ GetDataBegin(s)
        \/ GetDataEnd(s)

SpecTwice == InitTwice /\ [][NextTwice]_vars

Init ==
    /\ flights \in FlightTables({Flight("IndiGo", "Arrived", "VIDP", "VABB", 1, "VT-IFA")},
                                {Flight("IndiGo", "Arrived", "VIDP", "VABB", 1, "VT-IFA")}, {0})
    /\ airports = <<DEL>>
    /\ aircraft = Fleet
    /\ InitSessions

Next ==
    \E s \in Sessions :
        \/ HomeDashboard(s)
        \/ FlightExplorer(s)
        \/ AircraftAnalytics(s)
        \/ AirportLocation(s)
        \/ DelayInsights(s)
        \/ SqlQueryResults(s)
        \/ AboutProject(s)
        \/ GetDataBegin(s)
        \/ GetDataEnd(s)

Spec == Init /\ [][Next]_vars

\* C9: no step of the program changes the flights, aircraft or airports
\* table, and every statement handed to the engine is a SELECT.
C9_ReadOnly ==
    [][/\ flights' = flights
       /\ airports' = airports
       /\ aircraft' = aircraft
       /\ \A s \in Sessions :
             stmt'[s] # NoStatement => Head(stmt'[s].query) = "SELECT"]_vars

\* one session has filtered the explorer and the other executed a catalog
\* entry, over a table that holds flights
C9_Witness ==
    /\ flights # <<>>
    /\ ExplorerDone("s1") /\ selected["s1"].airline # "All"
    /\ \E i \in DOMAIN CatalogKeys : CatalogDone("s2", CatalogKeys[i])

\* C10 as claimed: no two sessions have a query in flight on the same
\* connection handle at the same time.
C10_OneQueryPerHandle ==
    \A s, t \in Sessions :
        (s # t /\ pc[s] = "running" /\ pc[t] = "running") => handle[s] # handle[t]

(***************************************************************************)
(* The status report of the catalog and unresolved origins in the explorer.*)
(***************************************************************************)
Q8 == "8) Flights by Status per Airline"

\* the seven bucket counts of a row of query 8, added up
BucketSum(row) ==
    row.arrived + row.departed + row.unknown + row.expected + row.approaching
        + row.canceled + row.delayed

\* C11 as claimed: in every row of query 8 the bucket counts sum to
\* total_flights, so every flight of the airline is counted in some bucket,
\* whatever its status string.
C11_BucketsSumToTotal ==
    \A s \in Sessions : CatalogDone(s, Q8) =>
        \A k \in DOMAIN result[s].rows :
            BucketSum(result[s].rows[k]) = result[s].rows[k].total_flights

\* the flights matching the airline and status filters of a selection
MatchesAirlineStatus(f, sel) ==
    /\ sel.airline = "All" \/ f.airline_name = sel.airline
    /\ sel.status = "All" \/ f.status = sel.status

\* flight i is among the 100 most recent flights matching the filters,
\* however ties in scheduled_dep are broken
WithinMostRecent(i, sel) ==
    Cardinality({j \in DOMAIN flights :
                    /\ j # i
                    /\ MatchesAirlineStatus(flights[j], sel)
                    /\ flights[j].scheduled_dep >= flights[i].scheduled_dep})
        < ExplorerLimit

\* C12 as claimed: with the origin filter "All", a flight whose origin_icao
\* matches no airport row appears in the explorer result, its origin columns
\* missing, whenever it matches the airline and status filters and is among
\* the 100 most recent matching flights.
C12_UnresolvedOriginShown ==
    \A s \in Sessions : (ExplorerDone(s) /\ selected[s].origin = "All") =>
        \A i \in DOMAIN flights :
            (/\ \A j \in DOMAIN airports :
                   ~SqlEq(flights[i].origin_icao, airports[j].icao_code)
             /\ MatchesAirlineStatus(flights[i], selected[s])
             /\ WithinMostRecent(i, selected[s]))
            => \E k \in DOMAIN result[s].rows :
                  /\ result[s].rows[k].flight_number = flights[i].flight_number
                  /\ result[s].rows[k].origin = NULL

====
